---------------------------- MODULE Spec2Model ----------------------------
(***************************************************************************)
(* Model of PseudoHilbert.py: construction of a pseudo-Hilbert scan of a    *)
(* width x height rectangle (PseudoHilbert.__init__) and of the static      *)
(* method PseudoHilbert.division.                                           *)
(*                                                                          *)
(* Python values are modelled as follows.  None is the string "None" for a  *)
(* direction or an unset block attribute, the empty tuple <<>> for an unset *)
(* entry of a coordinate list and NoIndex for an unset entry of             *)
(* coordinate_to_index.  Python lists are sequences (index i of the list is *)
(* index i+1 of the sequence).  An exception raised by the constructor ends *)
(* the run in pc = "failed" with its class name in err.                     *)
(***************************************************************************)
EXTENDS Integers, Sequences, FiniteSets, TLC

VARIABLES width, height, pc, err, order, order_count,
          x_divisions, y_divisions,
          cumulative_x_divisions, cumulative_y_divisions,
          block_list, current_block_count,
          coordinate_to_index, index_to_coordinate, counter, block_index,
          length, divided_length,
          scan_block, raster_output, scan_output

vars == <<width, height, pc, err, order, order_count,
          x_divisions, y_divisions,
          cumulative_x_divisions, cumulative_y_divisions,
          block_list, current_block_count,
          coordinate_to_index, index_to_coordinate, counter, block_index,
          length, divided_length,
                   scan_block, raster_output, scan_output>>

(* Bounds of the model: sides range over -NegSide..MaxSide, the lengths    *)
(* handed to division alone over 2..MaxLength, the blocks scanned alone have *)
(* sides in 1..MaxBlock and their corner in (0..MaxPos) x (0..MaxPos).      *)
MaxSide == 19
NegSide == 3
MaxLength == 300
MaxBlock == 12
MaxPos == 1

Sides == (0 - NegSide)..MaxSide

None == "None"
NoCell == <<>>
NoIndex == -1

Abs(n) == IF n < 0 THEN 0 - n ELSE n
Min(a, b) == IF a < b THEN a ELSE b
Max(a, b) == IF a > b THEN a ELSE b

(* [v] * n of Python: n copies, none when n <= 0 *)
Repeat(v, n) == [i \in 1..Max(n, 0) |-> v]

(* ------------------------------ tables ------------------------------- *)

(* scan_instructions with scan type 1 sweeping x first (a slip in one entry) *)
scan_instructions_slip ==
    << <<0, 0, 1>>, <<0, 0, 1>>, <<1, 1, 0>>, <<1, 1, 1>>,
       <<1, 0, 0>>, <<0, 1, 1>>, <<0, 1, 0>>, <<1, 0, 1>> >>

scan_instructions ==
    << <<0, 0, 0>>, <<0, 0, 1>>, <<1, 1, 0>>, <<1, 1, 1>>,
       <<1, 0, 0>>, <<0, 1, 1>>, <<0, 1, 0>>, <<1, 0, 1>> >>

(* even_even_optimisation_path with the last quadrant of scan type 1 placed *)
(* at (1, 1), not (1, 0)                                                   *)
even_even_optimisation_path_slip ==
    << << <<2, 0, 0>>, <<1, 0, 1>>, <<1, 1, 1>>, <<4, 1, 1>> >>,
       << <<1, 0, 0>>, <<2, 1, 0>>, <<2, 1, 1>>, <<3, 0, 1>> >>,
       << <<4, 1, 1>>, <<3, 1, 0>>, <<3, 0, 0>>, <<2, 0, 1>> >>,
       << <<3, 1, 1>>, <<4, 0, 1>>, <<4, 0, 0>>, <<1, 1, 0>> >>,
       << <<8, 1, 0>>, <<5, 1, 1>>, <<5, 0, 1>>, <<6, 0, 0>> >>,
       << <<7, 0, 1>>, <<6, 1, 1>>, <<6, 1, 0>>, <<5, 0, 0>> >>,
       << <<6, 0, 1>>, <<7, 0, 0>>, <<7, 1, 0>>, <<8, 1, 1>> >>,
       << <<5, 1, 0>>, <<8, 0, 0>>, <<8, 0, 1>>, <<7, 1, 1>> >> >>

even_even_optimisation_path ==
    << << <<2, 0, 0>>, <<1, 0, 1>>, <<1, 1, 1>>, <<4, 1, 0>> >>,
       << <<1, 0, 0>>, <<2, 1, 0>>, <<2, 1, 1>>, <<3, 0, 1>> >>,
       << <<4, 1, 1>>, <<3, 1, 0>>, <<3, 0, 0>>, <<2, 0, 1>> >>,
       << <<3, 1, 1>>, <<4, 0, 1>>, <<4, 0, 0>>, <<1, 1, 0>> >>,
       << <<8, 1, 0>>, <<5, 1, 1>>, <<5, 0, 1>>, <<6, 0, 0>> >>,
       << <<7, 0, 1>>, <<6, 1, 1>>, <<6, 1, 0>>, <<5, 0, 0>> >>,
       << <<6, 0, 1>>, <<7, 0, 0>>, <<7, 1, 0>>, <<8, 1, 1>> >>,
       << <<5, 1, 0>>, <<8, 0, 0>>, <<8, 0, 1>>, <<7, 1, 1>> >> >>

(* even_even_block_directions with UP, not RIGHT, from type 1 to type 1 *)
even_even_block_directions_slip ==
    << <<"UP", "RIGHT", "DOWN", "DOWN">>,
       <<"UP", "UP", "LEFT", "LEFT">>,
       <<"UP", "UP", "LEFT", "LEFT">>,
       <<"RIGHT", "RIGHT", "DOWN", "DOWN">> >>

even_even_block_directions ==
    << <<"RIGHT", "RIGHT", "DOWN", "DOWN">>,
       <<"UP", "UP", "LEFT", "LEFT">>,
       <<"UP", "UP", "LEFT", "LEFT">>,
       <<"RIGHT", "RIGHT", "DOWN", "DOWN">> >>

(* Block.__init__: a block with its type and address, nothing else set *)
Block(hilbert_type, address_x, address_y) ==
    [hilbert_type |-> hilbert_type,
     address_x |-> address_x, address_y |-> address_y,
     x_index |-> None, y_index |-> None,
     travel_direction_to_enter |-> None, travel_direction_to_leave |-> None,
     x_size |-> None, y_size |-> None, x_pos |-> None, y_pos |-> None,
     shape |-> None, scan_type |-> None]

template_table ==
    << << Block(2, <<0>>, <<0>>), Block(1, <<0>>, <<1>>),
          Block(1, <<1>>, <<1>>), Block(4, <<1>>, <<0>>) >>,
       << Block(1, <<0>>, <<0>>), Block(2, <<1>>, <<0>>),
          Block(2, <<1>>, <<1>>), Block(3, <<0>>, <<1>>) >>,
       << Block(4, <<1>>, <<1>>), Block(3, <<1>>, <<0>>),
          Block(3, <<0>>, <<0>>), Block(2, <<0>>, <<1>>) >>,
       << Block(3, <<1>>, <<1>>), Block(4, <<0>>, <<1>>),
          Block(4, <<0>>, <<0>>), Block(1, <<1>>, <<0>>) >> >>

(* the keys of either_odd_scan_lookup, as <<enter, leave>> *)
either_odd_scan_keys ==
    { <<"LEFT", "LEFT">>, <<"LEFT", "UP">>, <<"LEFT", "DOWN">>,
      <<"RIGHT", "RIGHT">>, <<"RIGHT", "UP">>, <<"RIGHT", "DOWN">>,
      <<"UP", "LEFT">>, <<"UP", "RIGHT">>, <<"UP", "UP">>,
      <<"DOWN", "LEFT">>, <<"DOWN", "RIGHT">>, <<"DOWN", "DOWN">>,
      <<None, "UP">>, <<None, "RIGHT">>,
      <<"RIGHT", None>>, <<"DOWN", None>> }

(* either_odd_scan_lookup with the entry of (RIGHT, UP) taken from (LEFT, UP) *)
either_odd_scan_lookup_slip(key) ==
    CASE key = <<"LEFT", "LEFT">> -> 5
      [] key = <<"LEFT", "UP">> -> 8
      [] key = <<"LEFT", "DOWN">> -> 5
      [] key = <<"RIGHT", "RIGHT">> -> 7
      [] key = <<"RIGHT", "UP">> -> 8
      [] key = <<"RIGHT", "DOWN">> -> 6
      [] key = <<"UP", "LEFT">> -> 5
      [] key = <<"UP", "RIGHT">> -> 8
      [] key = <<"UP", "UP">> -> 8
      [] key = <<"DOWN", "LEFT">> -> 6
      [] key = <<"DOWN", "RIGHT">> -> 7
      [] key = <<"DOWN", "DOWN">> -> 6
      [] key = <<None, "UP">> -> 0
      [] key = <<None, "RIGHT">> -> 0
      [] key = <<"RIGHT", None>> -> 7
      [] key = <<"DOWN", None>> -> 7

either_odd_scan_lookup(key) ==
    CASE key = <<"LEFT", "LEFT">> -> 5
      [] key = <<"LEFT", "UP">> -> 8
      [] key = <<"LEFT", "DOWN">> -> 5
      [] key = <<"RIGHT", "RIGHT">> -> 7
      [] key = <<"RIGHT", "UP">> -> 7
      [] key = <<"RIGHT", "DOWN">> -> 6
      [] key = <<"UP", "LEFT">> -> 5
      [] key = <<"UP", "RIGHT">> -> 8
      [] key = <<"UP", "UP">> -> 8
      [] key = <<"DOWN", "LEFT">> -> 6
      [] key = <<"DOWN", "RIGHT">> -> 7
      [] key = <<"DOWN", "DOWN">> -> 6
      [] key = <<None, "UP">> -> 0
      [] key = <<None, "RIGHT">> -> 0
      [] key = <<"RIGHT", None>> -> 7
      [] key = <<"DOWN", None>> -> 7

(* ----------------------------- division ------------------------------ *)

(* math.frexp(n)[1] for an integer n: 0 for 0, else the bit length of |n| *)
RECURSIVE BitLength(_)
BitLength(n) == IF n = 0 THEN 0 ELSE 1 + BitLength(n \div 2)

frexp_exponent(n) == BitLength(Abs(n))

(* division returning its two parts in the other order *)
division_swapped(len) ==
    LET m == frexp_exponent(len) - 2
        two_to_the_mth == 2 ^ m
        cutoff == 3 * two_to_the_mth
        second_part == IF len > cutoff THEN two_to_the_mth * 2
                                       ELSE two_to_the_mth
        first_part == len - second_part
    IN  <<second_part, first_part>>

(* division comparing with >= where the code compares with > *)
division_ge_cutoff(len) ==
    LET m == frexp_exponent(len) - 2
        two_to_the_mth == 2 ^ m
        cutoff == 3 * two_to_the_mth
        second_part == IF len >= cutoff THEN two_to_the_mth * 2
                                        ELSE two_to_the_mth
        first_part == len - second_part
    IN  <<first_part, second_part>>

(* division taking 1, not 2, from the exponent *)
division_exponent_slip(len) ==
    LET m == frexp_exponent(len) - 1
        two_to_the_mth == 2 ^ m
        cutoff == 3 * two_to_the_mth
        second_part == IF len > cutoff THEN two_to_the_mth * 2
                                       ELSE two_to_the_mth
        first_part == len - second_part
    IN  <<first_part, second_part>>

division(len) ==
    LET m == frexp_exponent(len) - 2
        two_to_the_mth == 2 ^ m
        cutoff == 3 * two_to_the_mth
        second_part == IF len > cutoff THEN two_to_the_mth * 2
                                       ELSE two_to_the_mth
        first_part == len - second_part
    IN  <<first_part, second_part>>


(* ------------------------------- Block -------------------------------- *)

Parity(n) == IF n % 2 = 0 THEN "EVEN" ELSE "ODD"

RECURSIVE BitsToInt(_, _)
BitsToInt(bits, x) ==
    IF bits = <<>> THEN x ELSE BitsToInt(Tail(bits), 2 * x + Head(bits))

calculate_decimal_indices(b) ==
    [b EXCEPT !.x_index = BitsToInt(b.address_x, 0),
              !.y_index = BitsToInt(b.address_y, 0)]

position_block(b, parent_block) ==
    [b EXCEPT !.address_x = parent_block.address_x \o b.address_x,
              !.address_y = parent_block.address_y \o b.address_y]

set_coordinates(b, x_coordinate, y_coordinate) ==
    [b EXCEPT !.x_pos = x_coordinate, !.y_pos = y_coordinate]

set_size(b, x_size, y_size) ==
    [b EXCEPT !.x_size = x_size, !.y_size = y_size,
              !.shape = <<Parity(x_size), Parity(y_size)>>]

copy(b) ==
    [Block(b.hilbert_type, b.address_x, b.address_y) EXCEPT
        !.travel_direction_to_enter = b.travel_direction_to_enter,
        !.travel_direction_to_leave = b.travel_direction_to_leave,
        !.x_index = b.x_index, !.y_index = b.y_index,
        !.x_size = b.x_size, !.y_size = b.y_size,
        !.x_pos = b.x_pos, !.y_pos = b.y_pos]

(* coordinates[counter] = [x, y]; counter += 1 *)
StoreCell(st, x, y) ==
    IF st.err # "none" THEN st
    ELSE IF st.counter >= Len(st.coordinates)
         THEN [st EXCEPT !.err = "IndexError"]
         ELSE [st EXCEPT !.x = x, !.y = y,
                         !.coordinates[st.counter + 1] = <<x, y>>,
                         !.counter = st.counter + 1]

(* the inner loop: n moves in the primary scan direction *)
RECURSIVE PrimaryLoop(_, _, _)
PrimaryLoop(st, n, primary) ==
    IF n <= 0 \/ st.err # "none" THEN st
    ELSE PrimaryLoop(StoreCell(st, st.x + primary[1], st.y + primary[2]),
                     n - 1, primary)

(* the outer loop without the reversal of the primary scan direction *)
RECURSIVE SecondaryLoop_no_reversal(_, _, _, _, _)
SecondaryLoop_no_reversal(st, n, primary, secondary, primary_size) ==
    IF n <= 0 \/ st.err # "none" THEN st
    ELSE LET moved == StoreCell(st, st.x + secondary[1], st.y + secondary[2])
             swept == PrimaryLoop(moved, primary_size - 1, primary)
         IN  SecondaryLoop_no_reversal(swept, n - 1, primary, secondary,
                                       primary_size)

(* the outer loop: n moves in the secondary scan direction, each followed *)
(* by the inner loop and the reversal of the primary scan direction       *)
RECURSIVE SecondaryLoop(_, _, _, _, _)
SecondaryLoop(st, n, primary, secondary, primary_size) ==
    IF n <= 0 \/ st.err # "none" THEN st
    ELSE LET moved == StoreCell(st, st.x + secondary[1], st.y + secondary[2])
             swept == PrimaryLoop(moved, primary_size - 1, primary)
         IN  SecondaryLoop(swept, n - 1,
                           <<0 - primary[1], 0 - primary[2]>>,
                           secondary, primary_size)

(* Block.bidirectional_raster_scan: [err, coordinates] *)
bidirectional_raster_scan(b) ==
    IF b.scan_type = 0
    THEN [err |-> "TypeError", coordinates |-> <<>>]
    ELSE
    LET instructions == scan_instructions[b.scan_type]
        x0 == b.x_pos + instructions[1] * (b.x_size - 1)
        y0 == b.y_pos + instructions[2] * (b.y_size - 1)
        y_direction == <<0, 1 - 2 * instructions[2]>>
        x_direction == <<1 - 2 * instructions[1], 0>>
        swap == instructions[3] = 1
        primary == IF swap THEN x_direction ELSE y_direction
        secondary == IF swap THEN y_direction ELSE x_direction
        primary_size == IF swap THEN b.x_size ELSE b.y_size
        secondary_size == IF swap THEN b.y_size ELSE b.x_size
        start == [x |-> x0 - secondary[1], y |-> y0 - secondary[2],
                  counter |-> 0, err |-> "none",
                  coordinates |-> Repeat(NoCell, b.x_size * b.y_size)]
        final == SecondaryLoop(start, secondary_size, primary, secondary,
                               primary_size)
    IN  [err |-> final.err, coordinates |-> final.coordinates]

(* sub-block block_index (0..3) of the quadrant refinement of b *)
SubBlock(b, k) ==
    LET half_x_size == b.x_size \div 2
        half_y_size == b.y_size \div 2
        entry == even_even_optimisation_path[b.scan_type][k + 1]
        sized == set_size(Block(None, <<>>, <<>>), half_x_size, half_y_size)
        placed == set_coordinates(sized,
                                  b.x_pos + entry[2] * half_x_size,
                                  b.y_pos + entry[3] * half_y_size)
    IN  [placed EXCEPT !.scan_type = entry[1]]

RECURSIVE ScanSubBlocks(_, _, _)
ScanSubBlocks(b, k, acc) ==
    IF k > 3 \/ acc.err # "none" THEN acc
    ELSE LET r == bidirectional_raster_scan(SubBlock(b, k))
         IN  ScanSubBlocks(b, k + 1,
                 [err |-> r.err,
                  coordinates |-> acc.coordinates \o r.coordinates])

(* Block.scan: [err, coordinates] *)
scan(b) ==
    IF b.x_size % 4 = 0 /\ b.y_size % 4 = 0
    THEN IF b.scan_type = 0
         THEN [err |-> "TypeError", coordinates |-> <<>>]
         ELSE ScanSubBlocks(b, 0, [err |-> "none", coordinates |-> <<>>])
    ELSE bidirectional_raster_scan(b)

(* --------------------------- PseudoHilbert ---------------------------- *)

hilbert_type_to_direction(block_1, block_2) ==
    even_even_block_directions[block_1.hilbert_type][block_2.hilbert_type]

(* one pass of the inner loop of the division schedule: n times, pop the *)
(* head of the list and extend the list with its two parts               *)
RECURSIVE PopExtend(_, _)
PopExtend(divisions, n) ==
    IF n = 0 THEN divisions
    ELSE PopExtend(Tail(divisions) \o division(Head(divisions)), n - 1)

(* list(accumulate(divisions)), then insert(0, 0) and pop() *)
RECURSIVE Accumulate(_, _)
Accumulate(divisions, total) ==
    IF divisions = <<>> THEN <<>>
    ELSE <<total + Head(divisions)>>
         \o Accumulate(Tail(divisions), total + Head(divisions))

Cumulative(divisions) ==
    LET shifted == <<0>> \o Accumulate(divisions, 0)
    IN  SubSeq(shifted, 1, Len(shifted) - 1)

(* the replacement loop run from block 0 upward, so that it reads entries *)
(* it has already overwritten                                             *)
RECURSIVE ReplaceForward(_, _, _)
ReplaceForward(blocks, i, last) ==
    IF i > last THEN blocks
    ELSE LET block == blocks[i + 1]
             new_blocks == [k \in 1..4 |->
                 position_block(copy(template_table[block.hilbert_type][k]),
                                block)]
         IN  ReplaceForward(
                 [blocks EXCEPT ![i * 4 + 1] = new_blocks[1],
                                ![i * 4 + 2] = new_blocks[2],
                                ![i * 4 + 3] = new_blocks[3],
                                ![i * 4 + 4] = new_blocks[4]],
                 i + 1, last)

ReplaceBlocks_forward(blocks, block_count) ==
    ReplaceForward(blocks, 0, block_count)

(* the loop replacing blocks block_count, block_count - 1, ..., 0 of the  *)
(* list by their four sub-blocks                                          *)
RECURSIVE ReplaceBlocks(_, _)
ReplaceBlocks(blocks, block_count) ==
    IF block_count < 0 THEN blocks
    ELSE LET block == blocks[block_count + 1]
             new_blocks == [k \in 1..4 |->
                 position_block(copy(template_table[block.hilbert_type][k]),
                                block)]
         IN  ReplaceBlocks(
                 [blocks EXCEPT ![block_count * 4 + 1] = new_blocks[1],
                                ![block_count * 4 + 2] = new_blocks[2],
                                ![block_count * 4 + 3] = new_blocks[3],
                                ![block_count * 4 + 4] = new_blocks[4]],
                 block_count - 1)

(* the loop setting the travel directions of blocks i and i + 1 *)
RECURSIVE TravelDirections(_, _)
TravelDirections(blocks, i) ==
    IF i > Len(blocks) - 1 THEN blocks
    ELSE LET direction == hilbert_type_to_direction(blocks[i], blocks[i + 1])
         IN  TravelDirections(
                 [blocks EXCEPT ![i].travel_direction_to_leave = direction,
                                ![i + 1].travel_direction_to_enter = direction],
                 i + 1)

(* the loop setting index, size and position of every block *)
BlockCoordinates(blocks, x_div, y_div, cum_x, cum_y) ==
    [i \in 1..Len(blocks) |->
        LET b == calculate_decimal_indices(blocks[i])
        IN  set_coordinates(
                set_size(b, x_div[b.x_index + 1], y_div[b.y_index + 1]),
                cum_x[b.x_index + 1], cum_y[b.y_index + 1])]

set_scan_directions_even_even(blocks) ==
    [i \in 1..Len(blocks) |->
        [blocks[i] EXCEPT !.scan_type = blocks[i].hilbert_type]]

ScanKey(b) == <<b.travel_direction_to_enter, b.travel_direction_to_leave>>

(* the scan type the loop of set_scan_directions_either_odd gives a block *)
EitherOddScanType(b) ==
    IF b.shape = <<"EVEN", "ODD">> THEN 7
    ELSE IF b.shape = <<"ODD", "EVEN">> THEN 8
    ELSE either_odd_scan_lookup(ScanKey(b))

(* the first block left with the scan type the loop gave it *)
FirstBlockScanType_missing(b) == b.scan_type

(* the scan type of the first block after the three closing tests *)
FirstBlockScanType(b) ==
    IF b.shape = <<"ODD", "ODD">> THEN 1
    ELSE IF b.shape = <<"EVEN", "ODD">> THEN 2
    ELSE IF b.shape = <<"ODD", "EVEN">> THEN 1
    ELSE b.scan_type

(* [err, blocks]: KeyError when a block's direction pair is no key *)
set_scan_directions_either_odd(blocks) ==
    IF \E i \in 1..Len(blocks) : ScanKey(blocks[i]) \notin either_odd_scan_keys
    THEN [err |-> "KeyError", blocks |-> blocks]
    ELSE LET looped == [i \in 1..Len(blocks) |->
                 [blocks[i] EXCEPT !.scan_type = EitherOddScanType(blocks[i])]]
         IN  [err |-> "none",
              blocks |-> [looped EXCEPT
                             ![1].scan_type = FirstBlockScanType(looped[1])]]

(* the place of Python index i in a list of n items, 0 when out of range *)
PyIndex(i, n) ==
    IF 0 <= i /\ i < n THEN i + 1
    ELSE IF 0 - n <= i /\ i < 0 THEN n + i + 1
    ELSE 0

(* the fill loop storing counter + 1, not counter, in coordinate_to_index *)
RECURSIVE FillCells_off_by_one(_, _)
FillCells_off_by_one(cells, out) ==
    IF cells = <<>> \/ out.err # "none" THEN out
    ELSE LET cell == Head(cells)
         IN  IF cell = NoCell
             THEN [out EXCEPT !.err = "TypeError"]
             ELSE LET col == PyIndex(cell[1], Len(out.cti))
                      row == IF col = 0 THEN 0
                             ELSE PyIndex(cell[2], Len(out.cti[col]))
                  IN  IF col = 0 \/ row = 0 \/ out.counter >= Len(out.itc)
                      THEN [out EXCEPT !.err = "IndexError"]
                      ELSE FillCells_off_by_one(Tail(cells),
                               [out EXCEPT !.cti[col][row] = out.counter + 1,
                                           !.itc[out.counter + 1] = cell,
                                           !.counter = out.counter + 1])

(* the loop over the cells of one scan result: [err, cti, itc, counter] *)
RECURSIVE FillCells(_, _)
FillCells(cells, out) ==
    IF cells = <<>> \/ out.err # "none" THEN out
    ELSE LET cell == Head(cells)
         IN  IF cell = NoCell
             THEN [out EXCEPT !.err = "TypeError"]
             ELSE LET col == PyIndex(cell[1], Len(out.cti))
                      row == IF col = 0 THEN 0
                             ELSE PyIndex(cell[2], Len(out.cti[col]))
                  IN  IF col = 0 \/ row = 0 \/ out.counter >= Len(out.itc)
                      THEN [out EXCEPT !.err = "IndexError"]
                      ELSE FillCells(Tail(cells),
                               [out EXCEPT !.cti[col][row] = out.counter,
                                           !.itc[out.counter + 1] = cell,
                                           !.counter = out.counter + 1])

(* ---------------------- PseudoHilbert.__init__ ------------------------ *)

Init ==
    /\ width \in Sides
    /\ height \in Sides
    /\ pc = "start"
    /\ err = "none"
    /\ order = 0
    /\ order_count = 0
    /\ x_divisions = <<>>
    /\ y_divisions = <<>>
    /\ cumulative_x_divisions = <<>>
    /\ cumulative_y_divisions = <<>>
    /\ block_list = <<>>
    /\ current_block_count = 0
    /\ coordinate_to_index = None
    /\ index_to_coordinate = None
    /\ counter = 0
    /\ block_index = 0
    /\ length = 0
    /\ divided_length = <<>>
    /\ scan_block = None
    /\ raster_output = None
    /\ scan_output = None

(* the order of the parent Hilbert curve and the undivided sides *)
ComputeOrder ==
    /\ pc = "start"
    /\ order' = Min(frexp_exponent(width), frexp_exponent(height)) - 2
    /\ x_divisions' = <<width>>
    /\ y_divisions' = <<height>>
    /\ order_count' = 0
    /\ pc' = "divide"
    /\ UNCHANGED <<width, height, err, cumulative_x_divisions,
                   cumulative_y_divisions, block_list, current_block_count,
                   coordinate_to_index, index_to_coordinate, counter,
                   block_index, length, divided_length,
                   scan_block, raster_output, scan_output>>

(* one iteration of "for order_count in range(self.order)" *)
DivideRound ==
    /\ pc = "divide"
    /\ order_count < order
    /\ x_divisions' = PopExtend(x_divisions, Len(x_divisions))
    /\ y_divisions' = PopExtend(y_divisions, Len(x_divisions))
    /\ order_count' = order_count + 1
    /\ UNCHANGED <<width, height, pc, err, order, cumulative_x_divisions,
                   cumulative_y_divisions, block_list, current_block_count,
                   coordinate_to_index, index_to_coordinate, counter,
                   block_index, length, divided_length,
                   scan_block, raster_output, scan_output>>

(* the lower left corners of the blocks *)
CumulativeDivisions ==
    /\ pc = "divide"
    /\ order_count >= order
    /\ cumulative_x_divisions' = Cumulative(x_divisions)
    /\ cumulative_y_divisions' = Cumulative(y_divisions)
    /\ pc' = "alloc"
    /\ UNCHANGED <<width, height, err, order, order_count, x_divisions,
                   y_divisions, block_list, current_block_count,
                   coordinate_to_index, index_to_coordinate, counter,
                   block_index, length, divided_length,
                   scan_block, raster_output, scan_output>>

(* [Block] * pow(2, 2 * order): pow gives a float for a negative exponent, *)
(* and a list times a float is a TypeError                                 *)
AllocateBlockList ==
    /\ pc = "alloc"
    /\ IF 2 * order < 0
       THEN /\ pc' = "failed"
            /\ err' = "TypeError"
            /\ UNCHANGED <<block_list, current_block_count, order_count>>
       ELSE /\ block_list' =
                   [Repeat("Block", 2 ^ (2 * order)) EXCEPT
                       ![1] = Block(1, <<>>, <<>>)]
            /\ current_block_count' = 1
            /\ order_count' = 0
            /\ pc' = "expand"
            /\ err' = err
    /\ UNCHANGED <<width, height, order, x_divisions, y_divisions,
                   cumulative_x_divisions, cumulative_y_divisions,
                   coordinate_to_index, index_to_coordinate, counter,
                   block_index, length, divided_length,
                   scan_block, raster_output, scan_output>>

(* one iteration of the loop generating the Hilbert curve *)
ExpandRound ==
    /\ pc = "expand"
    /\ order_count < order
    /\ block_list' = ReplaceBlocks(block_list, current_block_count - 1)
    /\ current_block_count' = current_block_count * 4
    /\ order_count' = order_count + 1
    /\ UNCHANGED <<width, height, pc, err, order, x_divisions, y_divisions,
                   cumulative_x_divisions, cumulative_y_divisions,
                   coordinate_to_index, index_to_coordinate, counter,
                   block_index, length, divided_length,
                   scan_block, raster_output, scan_output>>

SetTravelDirections ==
    /\ pc = "expand"
    /\ order_count >= order
    /\ block_list' = TravelDirections(block_list, 1)
    /\ pc' = "coordinates"
    /\ UNCHANGED <<width, height, err, order, order_count, x_divisions,
                   y_divisions, cumulative_x_divisions,
                   cumulative_y_divisions, current_block_count,
                   coordinate_to_index, index_to_coordinate, counter,
                   block_index, length, divided_length,
                   scan_block, raster_output, scan_output>>

SetBlockCoordinates ==
    /\ pc = "coordinates"
    /\ block_list' = BlockCoordinates(block_list, x_divisions, y_divisions,
                         cumulative_x_divisions, cumulative_y_divisions)
    /\ pc' = "scantype"
    /\ UNCHANGED <<width, height, err, order, order_count, x_divisions,
                   y_divisions, cumulative_x_divisions,
                   cumulative_y_divisions, current_block_count,
                   coordinate_to_index, index_to_coordinate, counter,
                   block_index, length, divided_length,
                   scan_block, raster_output, scan_output>>

(* the scan types, by the shape of the first block *)
SetScanTypes ==
    /\ pc = "scantype"
    /\ LET overall_shape == block_list[1].shape
           odd == set_scan_directions_either_odd(block_list)
       IN  IF overall_shape = <<"EVEN", "EVEN">>
           THEN /\ block_list' = set_scan_directions_even_even(block_list)
                /\ pc' = "output"
                /\ err' = err
           ELSE IF odd.err # "none"
           THEN /\ pc' = "failed"
                /\ err' = odd.err
                /\ UNCHANGED block_list
           ELSE /\ block_list' = odd.blocks
                /\ pc' = "output"
                /\ err' = err
    /\ UNCHANGED <<width, height, order, order_count, x_divisions,
                   y_divisions, cumulative_x_divisions,
                   cumulative_y_divisions, current_block_count,
                   coordinate_to_index, index_to_coordinate, counter,
                   block_index, length, divided_length,
                   scan_block, raster_output, scan_output>>

CreateOutputLists ==
    /\ pc = "output"
    /\ coordinate_to_index' = Repeat(Repeat(NoIndex, height), width)
    /\ index_to_coordinate' = Repeat(NoCell, height * width)
    /\ counter' = 0
    /\ block_index' = 1
    /\ pc' = "scan"
    /\ UNCHANGED <<width, height, err, order, order_count, x_divisions,
                   y_divisions, cumulative_x_divisions,
                   cumulative_y_divisions, block_list, current_block_count,
                   length, divided_length,
                   scan_block, raster_output, scan_output>>

(* one iteration of "for block in block_list": scan it, fill the lists *)
ScanBlock ==
    /\ pc = "scan"
    /\ block_index <= Len(block_list)
    /\ LET scan_result == scan(block_list[block_index])
           filled == FillCells(scan_result.coordinates,
                         [err |-> "none", cti |-> coordinate_to_index,
                          itc |-> index_to_coordinate, counter |-> counter])
       IN  IF scan_result.err # "none" \/ filled.err # "none"
           THEN /\ pc' = "failed"
                /\ err' = IF scan_result.err # "none" THEN scan_result.err
                                                      ELSE filled.err
                /\ UNCHANGED <<coordinate_to_index, index_to_coordinate,
                               counter, block_index>>
           ELSE /\ coordinate_to_index' = filled.cti
                /\ index_to_coordinate' = filled.itc
                /\ counter' = filled.counter
                /\ block_index' = block_index + 1
                /\ UNCHANGED <<pc, err>>
    /\ UNCHANGED <<width, height, order, order_count, x_divisions,
                   y_divisions, cumulative_x_divisions,
                   cumulative_y_divisions, block_list, current_block_count,
                   length, divided_length,
                   scan_block, raster_output, scan_output>>

(* the constructor returns *)
Finish ==
    /\ pc = "scan"
    /\ block_index > Len(block_list)
    /\ pc' = "done"
    /\ UNCHANGED <<width, height, err, order, order_count, x_divisions,
                   y_divisions, cumulative_x_divisions,
                   cumulative_y_divisions, block_list, current_block_count,
                   coordinate_to_index, index_to_coordinate, counter,
                   block_index, length, divided_length,
                   scan_block, raster_output, scan_output>>

Next ==
    \/ ComputeOrder
    \/ DivideRound
    \/ CumulativeDivisions
    \/ AllocateBlockList
    \/ ExpandRound
    \/ SetTravelDirections
    \/ SetBlockCoordinates
    \/ SetScanTypes
    \/ CreateOutputLists
    \/ ScanBlock
    \/ Finish

Spec == Init /\ [][Next]_vars

(* ------------------------ division on its own ------------------------- *)

DivInit ==
    /\ length \in 2..MaxLength
    /\ divided_length = <<>>
    /\ pc = "division"
    /\ width = 0
    /\ height = 0
    /\ err = "none"
    /\ order = 0
    /\ order_count = 0
    /\ x_divisions = <<>>
    /\ y_divisions = <<>>
    /\ cumulative_x_divisions = <<>>
    /\ cumulative_y_divisions = <<>>
    /\ block_list = <<>>
    /\ current_block_count = 0
    /\ coordinate_to_index = None
    /\ index_to_coordinate = None
    /\ counter = 0
    /\ block_index = 0
    /\ scan_block = None
    /\ raster_output = None
    /\ scan_output = None

Divide ==
    /\ pc = "division"
    /\ divided_length' = division(length)
    /\ pc' = "divided"
    /\ UNCHANGED <<width, height, err, order, order_count, x_divisions,
                   y_divisions, cumulative_x_divisions,
                   cumulative_y_divisions, block_list, current_block_count,
                   coordinate_to_index, index_to_coordinate, counter,
                   block_index, length,
                   scan_block, raster_output, scan_output>>

DivNext == Divide

DivSpec == DivInit /\ [][DivNext]_vars

(* ------------------------------ claims ------------------------------- *)

Constructed == pc = "done"

Adjacent(c, d) == Abs(c[1] - d[1]) + Abs(c[2] - d[2]) = 1

(* a leaf block that scan() splits into four quadrants *)
Refined(b) == b.x_size % 4 = 0 /\ b.y_size % 4 = 0

(* C1: in every constructed curve, entries i and i+1 of index_to_coordinate *)
(* are grid-adjacent (Manhattan distance 1), for all i in                   *)
(* 0..width*height-2.                                                       *)
C1_Adjacency ==
    Constructed =>
        \A i \in 0..(width * height - 2) :
            Adjacent(index_to_coordinate[i + 1], index_to_coordinate[i + 2])

(* a constructed curve of a rectangle with an odd side, several leaf blocks *)
(* and a refined leaf                                                        *)
C1_Witness ==
    /\ Constructed
    /\ width >= 4 /\ height >= 4
    /\ width % 2 = 1
    /\ Len(block_list) > 1
    /\ \E i \in 1..Len(block_list) : Refined(block_list[i])
    /\ Len(index_to_coordinate) = width * height

(* C2: in every constructed curve, index_to_coordinate has exactly          *)
(* width*height entries, none of them unset, and holds each cell (x, y)     *)
(* with 0 <= x < width and 0 <= y < height exactly once and no other cell.  *)
C2_Permutation ==
    Constructed =>
        /\ Len(index_to_coordinate) = width * height
        /\ \A i \in 1..Len(index_to_coordinate) :
              /\ index_to_coordinate[i] # NoCell
              /\ index_to_coordinate[i][1] \in 0..(width - 1)
              /\ index_to_coordinate[i][2] \in 0..(height - 1)
        /\ \A x \in 0..(width - 1) : \A y \in 0..(height - 1) :
              Cardinality({i \in 1..Len(index_to_coordinate) :
                              index_to_coordinate[i] = <<x, y>>}) = 1

(* C3: in every constructed curve, coordinate_to_index[x][y] = i exactly    *)
(* when index_to_coordinate[i] = (x, y), for every cell (x, y) of the grid  *)
(* and every index i in 0..width*height-1; no entry of coordinate_to_index  *)
(* is left unset.                                                           *)
C3_Inverse ==
    Constructed =>
        \A x \in 0..(width - 1) : \A y \in 0..(height - 1) :
            /\ coordinate_to_index[x + 1][y + 1] # NoIndex
            /\ \A i \in 0..(width * height - 1) :
                  (coordinate_to_index[x + 1][y + 1] = i)
                      <=> (index_to_coordinate[i + 1] = <<x, y>>)

(* a constructed curve of a non-square grid whose last cell has its index *)
C3_Witness ==
    /\ Constructed
    /\ width >= 4 /\ height >= 4 /\ width # height
    /\ counter = width * height
    /\ LET last == index_to_coordinate[counter]
       IN  coordinate_to_index[last[1] + 1][last[2] + 1] = counter - 1

(* C4: for every width >= 1 and height >= 1 the constructor raises no      *)
(* error, and what it returns has width*height entries in                   *)
(* index_to_coordinate and a width x height coordinate_to_index.            *)
C4_Total ==
    (width >= 1 /\ height >= 1) =>
        /\ pc # "failed"
        /\ Constructed =>
              /\ Len(index_to_coordinate) = width * height
              /\ Len(coordinate_to_index) = width
              /\ \A x \in 1..width : Len(coordinate_to_index[x]) = height

(* C5: with width < 1 or height < 1 the constructor fails, with             *)
(* InvalidDimension, and before either output map is produced.              *)
C5_InvalidDimension ==
    (width < 1 \/ height < 1) =>
        /\ pc # "done"
        /\ pc = "failed" => err = "InvalidDimension"
        /\ coordinate_to_index = None
        /\ index_to_coordinate = None

(* C6: every constructed curve starts in the lower left cell:               *)
(* index_to_coordinate[0] = (0, 0).                                         *)
C6_StartsLowerLeft ==
    Constructed =>
        /\ Len(index_to_coordinate) >= 1
        /\ index_to_coordinate[1] = <<0, 0>>

(* C7: for width = 2 and height = 2 construction succeeds and              *)
(* index_to_coordinate is (0,0), (0,1), (1,1), (1,0).                       *)
C7_TwoByTwo ==
    (width = 2 /\ height = 2) =>
        /\ pc # "failed"
        /\ Constructed =>
              index_to_coordinate = << <<0, 0>>, <<0, 1>>, <<1, 1>>, <<1, 0>> >>

(* the 2 x 2 curve, built from a single block *)
C7_Witness ==
    /\ Constructed
    /\ width = 2 /\ height = 2
    /\ order = 0
    /\ Len(block_list) = 1
    /\ Len(index_to_coordinate) = 4

(* floor(log2(n)) for n >= 1, by its defining inequalities *)
FloorLog2(n) == CHOOSE k \in 0..n : 2 ^ k <= n /\ n < 2 ^ (k + 1)

IsPowerOfTwo(n) == \E k \in 0..FloorLog2(n) : n = 2 ^ k

(* C8: for every length >= 2, with m = floor(log2(length)) - 1 and         *)
(* p = 2^m, division(length) returns (first, second) with second = 2p if    *)
(* length > 3p and second = p otherwise, and first = length - second; so    *)
(* first + second = length, first > 0 and second > 0.                       *)
C8_DivisionLaw ==
    pc = "divided" =>
        LET m == FloorLog2(length) - 1
            p == 2 ^ m
            second == IF length > 3 * p THEN 2 * p ELSE p
        IN  /\ divided_length = <<length - second, second>>
            /\ divided_length[1] + divided_length[2] = length
            /\ divided_length[1] > 0
            /\ divided_length[2] > 0

(* a length above its cutoff 3p, divided with the doubled second part *)
C8_Witness ==
    /\ pc = "divided"
    /\ length = 7
    /\ divided_length = <<3, 4>>

(* C9 as stated: for every length >= 2 the two parts returned by division  *)
(* differ (the split is never an exact halving).                            *)
C9_NeverHalved ==
    pc = "divided" => divided_length[1] # divided_length[2]

(* C9 as amended: the two parts returned by division are equal exactly     *)
(* when length is a power of two, and then each is length / 2; for every    *)
(* other length >= 2 they differ.                                           *)
C9_HalvedIffPowerOfTwo ==
    pc = "divided" =>
        /\ (divided_length[1] = divided_length[2]) <=> IsPowerOfTwo(length)
        /\ IsPowerOfTwo(length) =>
              divided_length = <<length \div 2, length \div 2>>

(* a power of two, halved exactly *)
C9_Witness ==
    /\ pc = "divided"
    /\ length = 8
    /\ divided_length = <<4, 4>>

RECURSIVE Sum(_)
Sum(seq) == IF seq = <<>> THEN 0 ELSE Head(seq) + Sum(Tail(seq))

(* the leaves carry their index, size and position *)
Finalized == pc \in {"scantype", "output", "scan", "done"}

InLeaf(b, x, y) ==
    /\ b.x_pos <= x /\ x < b.x_pos + b.x_size
    /\ b.y_pos <= y /\ y < b.y_pos + b.y_size

(* C10: after finalization with order >= 0, order is                        *)
(* min(floor(log2(width)), floor(log2(height))) - 1, the block list holds   *)
(* 4^order leaves whose addresses have length order, each axis schedule     *)
(* has 2^order entries summing to the side, the (x_index, y_index) pairs    *)
(* of the leaves are pairwise distinct and cover the 2^order x 2^order      *)
(* index grid, every cell of the rectangle lies in exactly one leaf and     *)
(* the leaf areas sum to width*height.                                      *)
C10_LeafTiling ==
    (Finalized /\ order >= 0) =>
        LET n == Len(block_list)
            side == 2 ^ order
        IN  /\ (width >= 1 /\ height >= 1) =>
                  order = Min(FloorLog2(width), FloorLog2(height)) - 1
            /\ n = 4 ^ order
            /\ \A i \in 1..n : /\ Len(block_list[i].address_x) = order
                               /\ Len(block_list[i].address_y) = order
            /\ Len(x_divisions) = side /\ Sum(x_divisions) = width
            /\ Len(y_divisions) = side /\ Sum(y_divisions) = height
            /\ \A i, j \in 1..n :
                  i # j => <<block_list[i].x_index, block_list[i].y_index>>
                           # <<block_list[j].x_index, block_list[j].y_index>>
            /\ {<<block_list[i].x_index, block_list[i].y_index>> : i \in 1..n}
                   = (0..(side - 1)) \X (0..(side - 1))
            /\ \A x \in 0..(width - 1) : \A y \in 0..(height - 1) :
                  Cardinality({i \in 1..n : InLeaf(block_list[i], x, y)}) = 1
            /\ Sum([i \in 1..n |->
                       block_list[i].x_size * block_list[i].y_size])
                   = width * height

(* a finalized tree of order 2 over a rectangle with odd sides *)
C10_Witness ==
    /\ Finalized
    /\ order = 2
    /\ Len(block_list) = 16
    /\ width % 2 = 1 /\ height % 2 = 1 /\ width # height
    /\ \A i \in 1..16 : block_list[i].x_size >= 2

(* the step in (x_index, y_index) a travel direction stands for *)
Displacement(direction) ==
    CASE direction = "RIGHT" -> <<1, 0>>
      [] direction = "LEFT" -> <<-1, 0>>
      [] direction = "UP" -> <<0, 1>>
      [] direction = "DOWN" -> <<0, -1>>
      [] OTHER -> <<0, 0>>

(* C11: for order >= 1, any two curve-consecutive leaves b_i, b_{i+1} have  *)
(* (x_index, y_index) differing by exactly 1 in exactly one axis; the       *)
(* direction even_even_block_directions gives for their Hilbert types is    *)
(* stored as b_i's leave and b_{i+1}'s enter direction and is that          *)
(* displacement; only the first leaf has no enter direction and only the    *)
(* last has no leave direction.                                             *)
C11_Directions ==
    (Finalized /\ order >= 1) =>
        LET n == Len(block_list)
        IN  /\ \A i \in 1..(n - 1) :
                  LET a == block_list[i]
                      b == block_list[i + 1]
                      dx == b.x_index - a.x_index
                      dy == b.y_index - a.y_index
                  IN  /\ Abs(dx) + Abs(dy) = 1
                      /\ a.travel_direction_to_leave =
                             even_even_block_directions[a.hilbert_type]
                                                       [b.hilbert_type]
                      /\ b.travel_direction_to_enter =
                             a.travel_direction_to_leave
                      /\ Displacement(a.travel_direction_to_leave) = <<dx, dy>>
            /\ \A i \in 1..n :
                  /\ (block_list[i].travel_direction_to_enter = None)
                         <=> (i = 1)
                  /\ (block_list[i].travel_direction_to_leave = None)
                         <=> (i = n)

(* a finalized curve of order 3 that travels in all four directions *)
C11_Witness ==
    /\ Finalized
    /\ order = 3
    /\ \A d \in {"UP", "DOWN", "LEFT", "RIGHT"} :
          \E i \in 1..Len(block_list) :
              block_list[i].travel_direction_to_leave = d

(* the order of the curve as the two sides define it, for sides >= 1 *)
SidesOrder == Min(FloorLog2(width), FloorLog2(height)) - 1

(* the block list as it was before the scan types were set *)
WithoutScanTypes(blocks) ==
    [i \in 1..Len(blocks) |-> [blocks[i] EXCEPT !.scan_type = None]]

(* C12: for width, height >= 1 with order >= 0, the first leaf in curve     *)
(* order has index (0, 0) and the parity shape of (width, height); every    *)
(* entry of either division schedule is >= 2 and every entry but entry 0    *)
(* is even, so a leaf of odd width has x_index 0 and a leaf of odd height   *)
(* has y_index 0; and the scan types are set by the even-even strategy      *)
(* exactly when width and height are both even, by the either-odd strategy  *)
(* otherwise.                                                               *)
C12_FirstBlockShape ==
    (Finalized /\ width >= 1 /\ height >= 1 /\ SidesOrder >= 0) =>
        LET n == Len(block_list)
            first_block == block_list[1]
            even_even == width % 2 = 0 /\ height % 2 = 0
        IN  /\ order = SidesOrder
            /\ first_block.x_index = 0 /\ first_block.y_index = 0
            /\ first_block.shape = <<Parity(width), Parity(height)>>
            /\ \A k \in 1..Len(x_divisions) :
                  /\ x_divisions[k] >= 2
                  /\ k > 1 => x_divisions[k] % 2 = 0
            /\ \A k \in 1..Len(y_divisions) :
                  /\ y_divisions[k] >= 2
                  /\ k > 1 => y_divisions[k] % 2 = 0
            /\ \A i \in 1..n :
                  /\ block_list[i].x_size % 2 = 1 => block_list[i].x_index = 0
                  /\ block_list[i].y_size % 2 = 1 => block_list[i].y_index = 0
            /\ pc \in {"output", "scan", "done"} =>
                  block_list =
                      IF even_even
                      THEN set_scan_directions_even_even(
                               WithoutScanTypes(block_list))
                      ELSE set_scan_directions_either_odd(
                               WithoutScanTypes(block_list)).blocks

(* a constructed curve of an odd x even rectangle with odd and even leaves *)
C12_Witness ==
    /\ Constructed
    /\ order >= 1
    /\ width % 2 = 1 /\ height % 2 = 0
    /\ block_list[1].shape = <<"ODD", "EVEN">>
    /\ \E i \in 2..Len(block_list) : block_list[i].shape = <<"EVEN", "EVEN">>
    /\ \E i \in 2..Len(block_list) : block_list[i].shape = <<"ODD", "EVEN">>

(* the scan types are set *)
ScanTypesSet == pc \in {"output", "scan", "done"}

(* C13: once the scan types are set, every leaf has scan_type in 1..8.  In  *)
(* an even x even rectangle scan_type = hilbert_type, in 1..4.  Otherwise   *)
(* the first leaf has scan type 1 for shape (ODD, EVEN), 2 for (EVEN, ODD)  *)
(* and 1 for (ODD, ODD), so the 0 the lookup gives a block with no enter    *)
(* direction does not survive, and every other (ODD, EVEN) leaf has scan    *)
(* type 8 and every other (EVEN, ODD) leaf scan type 7.                     *)
C13_ScanTypes ==
    ScanTypesSet =>
        LET n == Len(block_list)
            first_block == block_list[1]
        IN  /\ \A i \in 1..n : block_list[i].scan_type \in 1..8
            /\ IF width % 2 = 0 /\ height % 2 = 0
               THEN \A i \in 1..n :
                       /\ block_list[i].scan_type = block_list[i].hilbert_type
                       /\ block_list[i].scan_type \in 1..4
               ELSE /\ first_block.shape = <<"ODD", "EVEN">>
                          => first_block.scan_type = 1
                    /\ first_block.shape = <<"EVEN", "ODD">>
                          => first_block.scan_type = 2
                    /\ first_block.shape = <<"ODD", "ODD">>
                          => first_block.scan_type = 1
                    /\ first_block.shape # <<"EVEN", "EVEN">>
                    /\ \A i \in 2..n :
                          /\ block_list[i].shape = <<"ODD", "EVEN">>
                                => block_list[i].scan_type = 8
                          /\ block_list[i].shape = <<"EVEN", "ODD">>
                                => block_list[i].scan_type = 7

(* a constructed odd x odd curve: the lookup gave its first leaf 0, the    *)
(* leaf has scan type 1, and leaves of scan types 7 and 8 by shape exist    *)
C13_Witness ==
    /\ Constructed
    /\ width >= 4 /\ height >= 4
    /\ width % 2 = 1 /\ height % 2 = 1
    /\ either_odd_scan_lookup(ScanKey(block_list[1])) = 0
    /\ block_list[1].scan_type = 1
    /\ \E i \in 2..Len(block_list) :
          block_list[i].shape = <<"ODD", "EVEN">> /\ block_list[i].scan_type = 8
    /\ \E i \in 2..Len(block_list) :
          block_list[i].shape = <<"EVEN", "ODD">> /\ block_list[i].scan_type = 7

(* ---------------------- Block.scan on its own ------------------------- *)

(* a block with size, position and scan type set, as scan() sets up its *)
(* sub-blocks                                                            *)
SizedBlock(x_pos, y_pos, x_size, y_size, scan_type) ==
    [set_coordinates(set_size(Block(None, <<>>, <<>>), x_size, y_size),
                     x_pos, y_pos) EXCEPT !.scan_type = scan_type]

ScanInit ==
    /\ scan_block \in {SizedBlock(xp, yp, xs, ys, st) :
                          xp \in 0..MaxPos, yp \in 0..MaxPos,
                          xs \in 1..MaxBlock, ys \in 1..MaxBlock,
                          st \in 1..8}
    /\ raster_output = None
    /\ scan_output = None
    /\ pc = "block"
    /\ width = 0
    /\ height = 0
    /\ err = "none"
    /\ order = 0
    /\ order_count = 0
    /\ x_divisions = <<>>
    /\ y_divisions = <<>>
    /\ cumulative_x_divisions = <<>>
    /\ cumulative_y_divisions = <<>>
    /\ block_list = <<>>
    /\ current_block_count = 0
    /\ coordinate_to_index = None
    /\ index_to_coordinate = None
    /\ counter = 0
    /\ block_index = 0
    /\ length = 0
    /\ divided_length = <<>>

RasterScan ==
    /\ pc = "block"
    /\ raster_output' = bidirectional_raster_scan(scan_block)
    /\ pc' = "rastered"
    /\ UNCHANGED <<width, height, err, order, order_count, x_divisions,
                   y_divisions, cumulative_x_divisions,
                   cumulative_y_divisions, block_list, current_block_count,
                   coordinate_to_index, index_to_coordinate, counter,
                   block_index, length, divided_length,
                   scan_block, scan_output>>

ScanQuadrants ==
    /\ pc = "rastered"
    /\ scan_output' = scan(scan_block)
    /\ pc' = "scanned"
    /\ UNCHANGED <<width, height, err, order, order_count, x_divisions,
                   y_divisions, cumulative_x_divisions,
                   cumulative_y_divisions, block_list, current_block_count,
                   coordinate_to_index, index_to_coordinate, counter,
                   block_index, length, divided_length,
                   scan_block, raster_output>>

ScanNext ==
    \/ RasterScan
    \/ ScanQuadrants

ScanSpec == ScanInit /\ [][ScanNext]_vars

(* the cells of a block *)
BlockCells(b) ==
    (b.x_pos..(b.x_pos + b.x_size - 1)) \X (b.y_pos..(b.y_pos + b.y_size - 1))

(* the corner scan_instructions names for a block's scan type *)
StartCorner(b) ==
    LET instructions == scan_instructions[b.scan_type]
    IN  <<IF instructions[1] = 0 THEN b.x_pos ELSE b.x_pos + b.x_size - 1,
          IF instructions[2] = 0 THEN b.y_pos ELSE b.y_pos + b.y_size - 1>>

=============================================================================
